---- MODULE Spec2Model ----
(***************************************************************************)
(* Verification model of the vitality multiplayer layer.                   *)
(*                                                                         *)
(* Part 1: the signaling relay (LobbySession durable object,               *)
(*         src/unnamed/part_016): lobby record, roster, suspend flag,      *)
(*         accepted sockets, hibernation.                                  *)
(* Part 2: the host side of the sync protocol (multiplayer store,          *)
(*         src/unnamed/part_014, and game store, src/src/store/            *)
(*         gameStore.ts): applying client actions and fanning out          *)
(*         StateSync snapshots.                                            *)
(* Part 3: the client side of the sync protocol (same stores): merging a   *)
(*         received snapshot, and joining a lobby over a new data link.    *)
(***************************************************************************)
EXTENDS Integers, FiniteSets, Sequences, TLC

(***************************************************************************)
(* Program constants and model bounds                                      *)
(***************************************************************************)
\* LobbySession.ts: const MAX_PEERS = 6
MAX_PEERS == 6

\* number of distinct peer identities acting in the small relay runs
NumPeers == 2
\* accepted sockets that may be alive at once in the small relay runs
MaxLive == 3
\* largest value of Date.now() (relative) given to an init request
MaxTime == 1
\* number of relay events explored from a nearly full roster
MaxSteps == 2
\* largest distance of the modelled counter from its starting value
MaxValue == 1
\* most players of a snapshot, and of a client's local game
MaxPlayers == 2
\* largest life total and largest settings value of a snapshot
MaxLife == 1

\* most connectivity candidates the host sends a joining client
MaxCandidates == 2

\* number of distinct sdp / candidate payloads a relayed envelope may carry
MaxPayload == 2

\* most envelopes of an unknown type a client device is sent in a run
MaxIgnored == 1

\* most messages in flight in one direction of a client's data link
MaxFlight == 2

\* worker: new Uint8Array(6), the length of a lobby code
CODE_LENGTH == 6

\* multiplayerStore.ts: const MAX_RECONNECT_ATTEMPTS = 5
MAX_RECONNECT_ATTEMPTS == 5

AllPeers == 1..(MAX_PEERS + 1)
SmallPeers == 1..NumPeers
HostIds == SmallPeers
Times == 0..MaxTime
LobbyCode == "ABC234"
Unlimited == 0 - 1
Clients == SmallPeers
Deltas == {0 - 1, 1}
Payloads == 1..MaxPayload

VARIABLES
  lobbyState,     \* this.lobbyState (in memory), NoLobby for null
  storage,        \* this.state.storage 'lobbyState' entry, NoLobby when absent
  connections,    \* this.connections: peer id -> index of the registered socket, 0 = no entry
  hostSuspended,  \* this.hostSuspended
  sockets,        \* accepted server-side sockets of each peer id, oldest first
  last,           \* the relay event handled last and its response
  sent,           \* envelopes the last event delivered, each to one socket
  hostAway,       \* history: the lobby record when the suspended host's channel closed; NoLobby once that host attached again or an init ran
  run,            \* what this run draws from: peer ids, envelope kinds, socket bound, history on/off
  budget,         \* relay events left in this run, Unlimited when not counted
  mp,             \* host device: useMultiplayerStore state
  dialing,        \* host device: a WebSocket made by joinLobby has not opened yet
  reconnectAttempts,  \* host device: module variable reconnectAttempts
  setup,          \* host device: peers whose initiatePeerConnection call is awaiting createOffer / setLocalDescription
  timer,          \* host device: delay in seconds of the pending reconnect setTimeout, 0 = none pending
  players,        \* host device: useGameStore players, as the value of one counter
  did,            \* host device: the event handled last
  p2p,            \* host device: data-link messages the last event sent
  lastSync,       \* host device, history: the state carried by the last P2P_STATE_SYNC broadcast
  client,         \* client device: useGameStore players, settings, highrollMode and the store's gameStarted
  synced,         \* client device: the P2P_STATE_SYNC payload handled last
  guest,          \* joining client device: its id, connectionState, transport for the host's offer, candidates applied and discarded, hostConnection, requests sent, syncs handled
  worker,         \* worker: the random bytes generateLobbyCode is given and the code it returns, <<>> before the call
  wire            \* the joining client's data link: P2P_STATE_REQUESTs and P2P_STATE_SYNCs in flight

relayVars == <<lobbyState, storage, connections, hostSuspended, sockets, last, sent,
               hostAway, run, budget>>

deviceVars == <<mp, dialing, reconnectAttempts, setup, timer, players, did, p2p, lastSync>>

clientVars == <<client, synced, worker>>

guestVars == <<guest, wire>>

vars == <<lobbyState, storage, connections, hostSuspended, sockets, last, sent,
          hostAway, run, budget,
          mp, dialing, reconnectAttempts, setup, timer, players, did, p2p, lastSync,
          client, synced, worker, guest, wire>>

(***************************************************************************)
(* Relay: values                                                           *)
(***************************************************************************)
\* SignalingLobbyState | null
NoLobby == [lobbyCode |-> "", hostId |-> 0, createdAt |-> 0]

\* an accepted socket: st is "open", or "closing" once close() was called on
\* it (its close event is still to come). suspendSent records that the lobby
\* host sent SIGNALING_HOST_SUSPEND on it. A socket is named <<p, i>>: the
\* i-th oldest accepted socket of peer id p.
OpenSock == [st |-> "open", suspendSent |-> FALSE]

NoInfo == [lobbyCode |-> "", hostId |-> 0, createdAt |-> 0, peers |-> {},
           hosts |-> {}, peerCount |-> 0, maxPeers |-> 0]

NoLast == [op |-> "none", peer |-> 0, slot |-> 0, kind |-> "", target |-> 0,
           payload |-> 0, status |-> 0, branch |-> "", info |-> NoInfo]

\* SignalingServerMessage, addressed to one socket
Envelope(type) ==
  [to |-> <<0, 0>>, type |-> type, from |-> 0, payload |-> 0, code |-> "", yourId |-> 0,
   isHost |-> FALSE, hostId |-> 0, lobbyInfo |-> NoInfo]

RelayKinds == {"SIGNALING_OFFER", "SIGNALING_ANSWER", "SIGNALING_ICE_CANDIDATE"}
ClientKinds == RelayKinds \cup {"SIGNALING_PING", "SIGNALING_HOST_SUSPEND", "MALFORMED", "UNKNOWN"}
\* the kinds that can change the relay's state, and one that cannot
StateKinds == {"SIGNALING_HOST_SUSPEND", "SIGNALING_PING"}

Received(kind) ==
  CASE kind = "SIGNALING_OFFER" -> "SIGNALING_OFFER_RECEIVED"
    [] kind = "SIGNALING_ANSWER" -> "SIGNALING_ANSWER_RECEIVED"
    [] kind = "SIGNALING_ICE_CANDIDATE" -> "SIGNALING_ICE_CANDIDATE_RECEIVED"

(***************************************************************************)
(* Relay: helpers of LobbySession                                          *)
(***************************************************************************)
Roster(conn) == {q \in DOMAIN conn : conn[q] # 0}

\* getLobbyInfo(): roster with the isHost flag computed from the lobby record
getLobbyInfo(ls, conn) ==
  [lobbyCode |-> ls.lobbyCode, hostId |-> ls.hostId, createdAt |-> ls.createdAt,
   peers |-> Roster(conn),
   hosts |-> {q \in Roster(conn) : q = ls.hostId},
   peerCount |-> Cardinality(Roster(conn)),
   maxPeers |-> MAX_PEERS]

\* sendTo(odPeerId, message): to the registered socket of the peer, if any;
\* send() on a socket that is no longer open throws and is swallowed
sendTo(conn, socks, p, m) ==
  IF p \in DOMAIN conn /\ conn[p] # 0 /\ socks[p][conn[p]].st = "open"
  THEN {[m EXCEPT !.to = <<p, conn[p]>>]}
  ELSE {}

\* broadcast(message): to every registered socket
broadcast(conn, socks, m) ==
  UNION {sendTo(conn, socks, q, m) : q \in DOMAIN conn}

\* closeLobby(): close every registered socket; the caller clears the roster,
\* the in-memory record and the storage
closeLobby(conn, socks) ==
  [q \in DOMAIN socks |->
    [i \in 1..Len(socks[q]) |->
      IF conn[q] = i THEN [socks[q][i] EXCEPT !.st = "closing"] ELSE socks[q][i]]]

\* a relay that looks for the lobby record in memory only
MemoryOnly == lobbyState

\* the lazy load at the top of handleGetInfo and handleWebSocket
LoadLobby == IF lobbyState = NoLobby THEN storage ELSE lobbyState

\* number of accepted sockets alive
RECURSIVE SumLen(_, _)
SumLen(socks, S) ==
  IF S = {} THEN 0
  ELSE LET q == CHOOSE x \in S : TRUE IN Len(socks[q]) + SumLen(socks, S \ {q})
Live(socks) == SumLen(socks, DOMAIN socks)

\* a sequence without its i-th element
Without(seq, i) == [j \in 1..(Len(seq) - 1) |-> IF j < i THEN seq[j] ELSE seq[j + 1]]

\* one relay event is consumed from the run's budget
Spend ==
  /\ budget # 0
  /\ budget' = IF budget > 0 THEN budget - 1 ELSE budget
  /\ UNCHANGED run
  /\ UNCHANGED <<deviceVars, clientVars, guestVars>>

(***************************************************************************)
(* Relay: operations                                                       *)
(***************************************************************************)
\* POST /init: handleInit. t is Date.now(); the clock does not run backwards.
handleInit(h, t) ==
  /\ Spend
  /\ storage # NoLobby => t >= storage.createdAt
  /\ lobbyState' = [lobbyCode |-> LobbyCode, hostId |-> h, createdAt |-> t]
  /\ storage' = lobbyState'
  /\ last' = [NoLast EXCEPT !.op = "init", !.peer = h, !.status = 200]
  /\ sent' = {}
  /\ hostAway' = NoLobby
  /\ UNCHANGED <<connections, hostSuspended, sockets>>

\* GET /info: handleGetInfo
handleGetInfo ==
  /\ Spend
  /\ lobbyState' = LoadLobby
  /\ last' = IF LoadLobby = NoLobby
             THEN [NoLast EXCEPT !.op = "info", !.status = 404]
             ELSE [NoLast EXCEPT !.op = "info", !.status = 200,
                                 !.info = getLobbyInfo(LoadLobby, connections)]
  /\ sent' = {}
  /\ UNCHANGED <<storage, connections, hostSuspended, sockets, hostAway>>

\* fetch with POST /close, the request the worker's /api/lobby/create sends to
\* the lobby its user hosted before: no route matches it, the answer is 404
fetchClose ==
  /\ Spend
  /\ last' = [NoLast EXCEPT !.op = "closeRequest", !.status = 404]
  /\ sent' = {}
  /\ UNCHANGED <<lobbyState, storage, connections, hostSuspended, sockets, hostAway>>

\* an attach that leaves the socket registered before it open
KeepExisting(socks, p, existing) == socks

\* handleWebSocket: close the socket registered for the peer id, if any
Evict(socks, p, existing) ==
  IF existing # 0 THEN [socks EXCEPT ![p][existing].st = "closing"] ELSE socks

\* handleWebSocket past its checks: accept the socket, evict the registered
\* one, register the new one, acknowledge, announce to the host
AttachAccepted(p) ==
  LET ls == LoadLobby
      existing == connections[p]
      isHost == p = ls.hostId
      socks1 == Evict(sockets, p, existing)
      socks2 == [socks1 EXCEPT ![p] = Append(@, OpenSock)]
      conn2 == [connections EXCEPT ![p] = Len(socks2[p])]
      joined == [Envelope("SIGNALING_JOINED") EXCEPT
                   !.lobbyInfo = getLobbyInfo(ls, conn2), !.yourId = p,
                   !.isHost = isHost, !.hostId = ls.hostId]
      peerJoined == [Envelope("SIGNALING_PEER_JOINED") EXCEPT !.from = p]
  IN /\ Live(sockets) < run.maxLive
     /\ lobbyState' = ls
     /\ sockets' = socks2
     /\ connections' = conn2
     /\ sent' = sendTo(conn2, socks2, p, joined)
                  \cup (IF isHost THEN {} ELSE sendTo(conn2, socks2, ls.hostId, peerJoined))
     /\ last' = [NoLast EXCEPT !.op = "attach", !.peer = p, !.slot = conn2[p],
                               !.status = 101, !.info = getLobbyInfo(ls, conn2)]
     /\ hostAway' = IF p = hostAway.hostId THEN NoLobby ELSE hostAway
     /\ UNCHANGED <<storage, hostSuspended>>

AttachRejected(p, status) ==
  /\ lobbyState' = LoadLobby
  /\ last' = [NoLast EXCEPT !.op = "attach", !.peer = p, !.status = status]
  /\ sent' = {}
  /\ UNCHANGED <<storage, connections, hostSuspended, sockets, hostAway>>

\* the capacity check of handleWebSocket
LobbyFull(p) == connections[p] = 0 /\ Cardinality(Roster(connections)) >= MAX_PEERS

\* WebSocket upgrade: handleWebSocket, for the peer id the worker put in the URL
handleWebSocket(p) ==
  /\ Spend
  /\ IF LoadLobby = NoLobby
     THEN AttachRejected(p, 404)
     ELSE IF LobbyFull(p)
          THEN AttachRejected(p, 403)
          ELSE AttachAccepted(p)

\* handleMessage, the switch on msg.type; returns the envelopes sent
handleMessage(p, kind, target, payload) ==
  CASE kind = "SIGNALING_PING" ->
         sendTo(connections, sockets, p, Envelope("SIGNALING_PONG"))
    [] kind \in RelayKinds ->
         sendTo(connections, sockets, target,
                [Envelope(Received(kind)) EXCEPT !.from = p, !.payload = payload])
    [] kind = "SIGNALING_HOST_SUSPEND" ->
         IF p = lobbyState.hostId
         THEN broadcast(connections, sockets, Envelope("SIGNALING_HOST_SUSPENDED"))
         ELSE {}
    [] OTHER -> {}

\* the suspend mark set by handleMessage
SuspendMark(p, kind) ==
  IF lobbyState # NoLobby /\ kind = "SIGNALING_HOST_SUSPEND" /\ p = lobbyState.hostId
  THEN TRUE ELSE hostSuspended

\* webSocketMessage on the open socket <<p, i>>
webSocketMessage(p, i, kind, target, payload) ==
  /\ Spend
  /\ i \in 1..Len(sockets[p])
  /\ sockets[p][i].st = "open"
  /\ kind \in RelayKinds <=> target # 0
  /\ kind \in RelayKinds <=> payload # 0
  /\ sent' = IF lobbyState = NoLobby THEN {}
             ELSE IF kind = "MALFORMED"
                  THEN sendTo(connections, sockets, p,
                              [Envelope("SIGNALING_ERROR") EXCEPT !.code = "INVALID_MESSAGE"])
                  ELSE handleMessage(p, kind, target, payload)
  /\ hostSuspended' = SuspendMark(p, kind)
  /\ sockets' = IF run.history /\ kind = "SIGNALING_HOST_SUSPEND"
                   /\ storage # NoLobby /\ p = storage.hostId
                THEN [sockets EXCEPT ![p][i].suspendSent = TRUE]
                ELSE sockets
  /\ last' = [NoLast EXCEPT !.op = "message", !.peer = p, !.slot = i, !.kind = kind,
                            !.target = target, !.payload = payload,
                            !.branch = IF lobbyState = NoLobby THEN "dropped" ELSE "handled"]
  /\ UNCHANGED <<lobbyState, storage, connections, hostAway>>

\* the branch webSocketClose takes for peer id p
CloseBranch(p) ==
  IF p = lobbyState.hostId
  THEN IF hostSuspended THEN "graceful" ELSE "teardown"
  ELSE IF lobbyState # NoLobby THEN "peerLeft" ELSE "none"

\* webSocketClose for socket <<p, i>>: the peer closed it, the network dropped
\* it, or the peer acknowledged a close() made by the relay
webSocketClose(p, i) ==
  LET conn1 == [connections EXCEPT ![p] = 0]
      branch == CloseBranch(p)
      wasSuspended == sockets[p][i].suspendSent /\ storage # NoLobby /\ p = storage.hostId
      gone(socks) == [socks EXCEPT ![p] = Without(@, i)]
  IN /\ Spend
     /\ i \in 1..Len(sockets[p])
     /\ IF branch = "teardown"
        THEN /\ sent' = broadcast(conn1, gone(sockets), Envelope("SIGNALING_HOST_DISCONNECTED"))
             /\ sockets' = gone(closeLobby(conn1, sockets))
             /\ connections' = [q \in DOMAIN connections |-> 0]
             /\ lobbyState' = NoLobby
             /\ storage' = NoLobby
             /\ UNCHANGED hostSuspended
        ELSE /\ sent' = IF branch = "peerLeft"
                        THEN sendTo(conn1, gone(sockets), lobbyState.hostId,
                                    [Envelope("SIGNALING_PEER_LEFT") EXCEPT !.from = p])
                        ELSE {}
             /\ sockets' = gone(sockets)
             /\ connections' = conn1
             /\ hostSuspended' = IF branch = "graceful" THEN FALSE ELSE hostSuspended
             /\ UNCHANGED <<lobbyState, storage>>
     /\ last' = [NoLast EXCEPT !.op = "close", !.peer = p, !.slot = i, !.branch = branch]
     /\ hostAway' = IF run.history /\ wasSuspended THEN storage ELSE hostAway

\* webSocketError for socket <<p, i>>.  The platform is then done with the
\* socket (gone), or keeps it, unusable, until a close callback follows.
webSocketError(p, i, gone) ==
  /\ Spend
  /\ i \in 1..Len(sockets[p])
  /\ connections' = [connections EXCEPT ![p] = 0]
  /\ sockets' = IF gone THEN [sockets EXCEPT ![p] = Without(@, i)]
                      ELSE [sockets EXCEPT ![p][i].st = "closing"]
  /\ sent' = {}
  /\ last' = [NoLast EXCEPT !.op = "error", !.peer = p, !.slot = i]
  /\ UNCHANGED <<lobbyState, storage, hostSuspended, hostAway>>

\* The object is evicted from memory and constructed again on the next event:
\* the fields take their initial values and the constructor rebuilds the roster
\* from getWebSockets(), one entry per peer id (the last socket listed wins; the
\* platform fixes no order, and may or may not still list a socket being closed).
Listed(p) ==
  (1..Len(sockets[p]))
    \cup (IF \E i \in 1..Len(sockets[p]) : sockets[p][i].st = "open" THEN {} ELSE {0})

RECURSIVE Rebuilt(_)
Rebuilt(n) ==
  IF n = 0 THEN {<<>>}
  ELSE {Append(f, i) : f \in Rebuilt(n - 1), i \in Listed(n)}

Hibernate ==
  /\ Spend
  /\ last.op # "hibernate"
  /\ lobbyState' = NoLobby
  /\ hostSuspended' = FALSE
  /\ connections' \in Rebuilt(Cardinality(run.peers))
  /\ sent' = {}
  /\ last' = [NoLast EXCEPT !.op = "hibernate"]
  /\ UNCHANGED <<storage, sockets, hostAway>>

(***************************************************************************)
(* Host device: values                                                     *)
(***************************************************************************)
NoPeers == [c \in Clients |-> "none"]

\* the store's initial state; also what cleanup() resets it to
Disconnected ==
  [connectionState |-> "disconnected", signalingWs |-> "null", lobbyCode |-> FALSE,
   isHost |-> FALSE, peerConnections |-> NoPeers, gameStarted |-> FALSE,
   error |-> "", connectedPeers |-> {}]

NoEvent == [op |-> "none", peer |-> 0, delta |-> 0, type |-> ""]
Event(op, c, d) == [NoEvent EXCEPT !.op = op, !.peer = c, !.delta = d]

P2PMessage(type, c, value, started) ==
  [to |-> c, type |-> type, players |-> value, gameStarted |-> started, peers |-> {}]

\* a reply that carries the state of a game not yet played
initialState(c, value, started) == P2PMessage("P2P_STATE_SYNC", c, 0, FALSE)

\* handleP2PMessage P2P_STATE_REQUEST: const stateMsg
stateMsg(c, value, started) == P2PMessage("P2P_STATE_SYNC", c, value, started)

NoSync == [has |-> FALSE, players |-> 0]

DeviceIdle ==
  /\ mp = Disconnected
  /\ dialing = FALSE
  /\ reconnectAttempts = 0
  /\ setup = {}
  /\ timer = 0
  /\ players = 0
  /\ did = NoEvent
  /\ p2p = {}
  /\ lastSync = NoSync

\* a snapshot: players in table order, each with its id, a life total and the
\* display field activeCounterIndex; settings; highrollMode; gameStarted
NoSnapshot == [players |-> <<>>, settings |-> 0, highrollMode |-> FALSE, gameStarted |-> FALSE]

\* a device that has joined nothing yet, and a data link carrying nothing
NoGuest ==
  [id |-> 0, connectionState |-> "disconnected", transport |-> "none",
   applied |-> 0, discarded |-> 0, hostConnection |-> "none",
   requests |-> 0, got |-> <<>>, players |-> 0, ignored |-> 0]
\* the worker before generateLobbyCode is called
NoCode == [array |-> <<>>, code |-> <<>>]

NoWire == [requests |-> 0, syncs |-> <<>>, actions |-> <<>>]

GuestIdle ==
  /\ guest = NoGuest
  /\ wire = NoWire

ClientIdle ==
  /\ client = NoSnapshot
  /\ synced = NoSnapshot
  /\ worker = NoCode
  /\ GuestIdle

(***************************************************************************)
(* Relay: specifications                                                   *)
(***************************************************************************)
\* the relay of a lobby code nobody has created yet, for the peer ids P
RelayInit(P) ==
  /\ lobbyState = NoLobby
  /\ storage = NoLobby
  /\ connections = [q \in P |-> 0]
  /\ hostSuspended = FALSE
  /\ sockets = [q \in P |-> <<>>]
  /\ last = NoLast
  /\ sent = {}
  /\ hostAway = NoLobby
  /\ DeviceIdle

\* a run over a few peer ids, with and without the history variables
SmallRun(history) ==
  [peers |-> SmallPeers, kinds |-> StateKinds, maxLive |-> MaxLive, history |-> history]

Init ==
  /\ RelayInit(SmallPeers)
  /\ ClientIdle
  /\ run = SmallRun(FALSE)
  /\ budget = Unlimited

InitAwake ==
  /\ RelayInit(SmallPeers)
  /\ ClientIdle
  /\ run = SmallRun(TRUE)
  /\ budget = Unlimited

NextAwake ==
  \/ \E h \in HostIds, t \in Times : handleInit(h, t)
  \/ handleGetInfo
  \/ fetchClose
  \/ \E p \in run.peers : handleWebSocket(p)
  \/ \E p \in run.peers, i \in 1..run.maxLive, kind \in run.kinds :
       \E target \in (IF kind \in RelayKinds THEN run.peers ELSE {0}),
          payload \in (IF kind \in RelayKinds THEN Payloads ELSE {0}) :
         webSocketMessage(p, i, kind, target, payload)
  \/ \E p \in run.peers, i \in 1..run.maxLive : webSocketClose(p, i)
  \/ \E p \in run.peers, i \in 1..run.maxLive, gone \in BOOLEAN : webSocketError(p, i, gone)

Next ==
  \/ NextAwake
  \/ Hibernate

\* the relay with hibernation
Spec == Init /\ [][Next]_vars

\* the relay while the object stays in memory
SpecAwake == InitAwake /\ [][NextAwake]_vars

\* a run in which the members send every kind of envelope
InitMsg ==
  /\ RelayInit(SmallPeers)
  /\ ClientIdle
  /\ run = [SmallRun(FALSE) EXCEPT !.kinds = ClientKinds]
  /\ budget = Unlimited

\* the relay with hibernation, relaying negotiation envelopes
SpecMsg == InitMsg /\ [][Next]_vars

\* a lobby whose roster is one short of MAX_PEERS, reached by init(1, 0) and
\* attaches, seen right after an info request.  In the first every attached
\* peer has one socket.  In the second peer 2 attached twice and the close of
\* its evicted socket was handled before peer 6 attached, so that peer 2 holds
\* an open socket and no roster entry.
CapLobby == [lobbyCode |-> LobbyCode, hostId |-> 1, createdAt |-> 0]

CapRosters ==
  { [q \in AllPeers |-> IF q < MAX_PEERS THEN 1 ELSE 0],
    [q \in AllPeers |-> IF q \in (1..MAX_PEERS) \ {2} THEN 1 ELSE 0] }

InitCap ==
  /\ lobbyState = CapLobby
  /\ storage = CapLobby
  /\ connections \in CapRosters
  /\ hostSuspended = FALSE
  /\ sockets = [q \in AllPeers |->
                  IF connections[q] # 0 \/ q = 2 THEN <<OpenSock>> ELSE <<>>]
  /\ last = [NoLast EXCEPT !.op = "info", !.status = 200,
                           !.info = getLobbyInfo(CapLobby, connections)]
  /\ sent = {}
  /\ hostAway = NoLobby
  /\ DeviceIdle
  /\ ClientIdle
  /\ run = [peers |-> AllPeers, kinds |-> StateKinds,
            maxLive |-> MAX_PEERS + 2, history |-> FALSE]
  /\ budget = MaxSteps

\* the next MaxSteps events of a relay whose roster is nearly full
SpecCap == InitCap /\ [][Next]_vars

(***************************************************************************)
(* Relay: properties                                                       *)
(***************************************************************************)
\* the socket <<p, i>> is the one the event just handled was about
Handled(ops, p) == last'.op \in ops /\ last'.peer = p

\* peer q, attached before the step through an open socket, got an envelope
\* of the given type on that socket in the step
Got(q, type) ==
  \E m \in sent' : m.type = type /\ m.to = <<q, connections[q]>>

\* the members attached before the step, the peer of the step aside
Others(p) == {q \in Roster(connections) \ {p} : sockets[q][connections[q]].st = "open"}

\* C1: whenever the close or the error callback runs for the host's registered
\* connection and the host has sent no suspend, every other member gets
\* SIGNALING_HOST_DISCONNECTED and the lobby is gone: empty roster, no record
\* in memory or storage (so info and attach answer 404).
C1_HostDetachTearsDown ==
  [][\A p \in run.peers :
       ( /\ Handled({"close", "error"}, p)
         /\ storage # NoLobby /\ p = storage.hostId
         /\ connections[p] = last'.slot
         /\ ~hostSuspended
         /\ \A j \in 1..Len(sockets[p]) : ~sockets[p][j].suspendSent )
       => ( /\ storage' = NoLobby
            /\ lobbyState' = NoLobby
            /\ Roster(connections') = {}
            /\ \A q \in Others(p) : Got(q, "SIGNALING_HOST_DISCONNECTED") )
    ]_vars

\* C2: when the channel on which the host sent suspend closes, the relay keeps
\* the lobby record and has no attached member, so that info shows what it
\* shows for a lobby that was initialized and never joined.
C2_SuspendedLobbyIsEmpty ==
  [][\A p \in run.peers :
       ( /\ Handled({"close"}, p)
         /\ storage # NoLobby /\ p = storage.hostId
         /\ last'.slot \in 1..Len(sockets[p])
         /\ sockets[p][last'.slot].suspendSent )
       => ( /\ storage' = storage
            /\ Roster(connections') = {}
            /\ getLobbyInfo(storage', connections')
                 = getLobbyInfo(storage', [q \in run.peers |-> 0]) )
    ]_vars

\* C3: when the host sends suspend every other attached member gets
\* SIGNALING_HOST_SUSPENDED in that step, and when the channel the host
\* suspended on closes afterwards nobody gets SIGNALING_HOST_DISCONNECTED.
C3_SuspendIsNotAnOutage ==
  [][\A p \in run.peers :
       /\ ( /\ Handled({"message"}, p) /\ last'.kind = "SIGNALING_HOST_SUSPEND"
            /\ storage # NoLobby /\ p = storage.hostId )
          => \A q \in Others(p) : Got(q, "SIGNALING_HOST_SUSPENDED")
       /\ ( /\ Handled({"close"}, p)
            /\ storage # NoLobby /\ p = storage.hostId
            /\ last'.slot \in 1..Len(sockets[p])
            /\ sockets[p][last'.slot].suspendSent )
          => \A m \in sent' : m.type # "SIGNALING_HOST_DISCONNECTED"
    ]_vars

\* C4: once the host has suspended and its channel has closed, an attach with
\* that host's identity is accepted, acknowledged with isHost = true, and finds
\* the record the host left: same hostId, same createdAt.
C4_ResumeReusesRecord ==
  [][\A p \in run.peers :
       ( /\ Handled({"attach"}, p)
         /\ hostAway # NoLobby /\ p = hostAway.hostId )
       => ( /\ last'.status = 101
            /\ \E m \in sent' : /\ m.type = "SIGNALING_JOINED"
                                /\ m.to = <<p, last'.slot>>
                                /\ m.isHost
            /\ storage' = hostAway )
    ]_vars

C6_RosterCapped ==
  [][/\ Cardinality(Roster(connections')) <= MAX_PEERS
     /\ \A p \in run.peers :
          ( /\ Handled({"attach"}, p)
            /\ LoadLobby # NoLobby
            /\ Cardinality(Roster(connections)) >= MAX_PEERS )
          => /\ connections[p] = 0 =>
                  /\ last'.status = 403
                  /\ sent' = {}
                  /\ connections' = connections
                  /\ sockets' = sockets
             /\ connections[p] # 0 => last'.status = 101
    ]_vars

\* C7: an init for a code that is already initialized fails and leaves the
\* lobby record and the roster as they were.
C7_InitOnce ==
  [][( last'.op = "init" /\ storage # NoLobby )
       => ( /\ last'.status # 200
            /\ storage' = storage
            /\ connections' = connections )
    ]_vars

\* C8: the lobby record exists exactly from an init to the next teardown;
\* while there is none, info answers 404 and attach answers 404 and changes
\* nothing; while there is one, info answers 200 and attach is accepted (or
\* refused for capacity).
C8_ExistsFromInitToTeardown ==
  [][/\ storage' # storage =>
          \/ last'.op = "init" /\ storage' # NoLobby
          \/ last'.op = "close" /\ last'.branch = "teardown" /\ storage' = NoLobby
     /\ last'.op = "init" => storage' # NoLobby
     /\ (last'.op = "close" /\ last'.branch = "teardown") => storage' = NoLobby
     /\ last'.op = "info" => (last'.status = 200 <=> storage # NoLobby)
     /\ last'.op = "info" => (last'.status = 404 <=> storage = NoLobby)
     /\ last'.op = "attach" =>
          /\ storage = NoLobby =>
               /\ last'.status = 404
               /\ connections' = connections /\ sockets' = sockets /\ sent' = {}
          /\ storage # NoLobby =>
               /\ last'.status \in {101, 403}
               /\ last'.status = 403 => Cardinality(Roster(connections)) >= MAX_PEERS
    ]_vars

\* C8 witness: an attach was answered 404 while sockets accepted by the lobby
\* that has since been torn down are still alive
C8_Witness ==
  /\ last.op = "attach" /\ last.status = 404
  /\ storage = NoLobby
  /\ Live(sockets) > 0

\* C9: the roster shown to members and to info flags at most one member as
\* host, that member is the lobby's hostId, and the hostId of an existing
\* lobby never changes.
HostFlagsOk(info) ==
  /\ Cardinality(info.hosts) <= 1
  /\ info.hosts \subseteq {info.hostId}

C9_OneFixedHost ==
  [][/\ HostFlagsOk(last'.info)
     /\ \A m \in sent' : HostFlagsOk(m.lobbyInfo)
     /\ (storage # NoLobby /\ storage' # NoLobby) => storage'.hostId = storage.hostId
    ]_vars

(***************************************************************************)
(* Host device: multiplayer store and game store                           *)
(*                                                                         *)
(* The device is the one whose user created the lobby.  A data channel     *)
(* the store no longer refers to (its map entry was replaced or cleared)   *)
(* is not followed any further.                                            *)
(***************************************************************************)
cleanup(m) == Disconnected

\* the bridge gameStore asks: connected and in a lobby
isMultiplayer(m) == m.connectionState = "connected" /\ m.lobbyCode

broadcastToClients(m, type, value, started) ==
  IF ~m.isHost THEN {}
  ELSE {P2PMessage(type, c, value, started) :
          c \in {q \in Clients : m.peerConnections[q] = "open"}}

\* the broadcast callback registered with gameStore
broadcastState(m, value) ==
  IF ~m.isHost THEN {}
  ELSE broadcastToClients(m, "P2P_STATE_SYNC", value, m.gameStarted)

\* isHost branch of sendGameAction
sendGameAction(m, value) ==
  IF m.isHost THEN broadcastToClients(m, "P2P_STATE_SYNC", value, m.gameStarted)
  ELSE {}

\* the store after joinLobby's synchronous part
joinLobby(m) ==
  [(IF m.signalingWs # "null" THEN cleanup(m) ELSE m)
     EXCEPT !.connectionState = "connecting", !.lobbyCode = TRUE, !.error = ""]

Values == (0 - MaxValue)..MaxValue
InRange(value) == value \in Values

\* history: what the event broadcast as P2P_STATE_SYNC, if it did
Broadcasts ==
  lastSync' = IF \E m \in p2p' : m.type = "P2P_STATE_SYNC"
                THEN [has |-> TRUE,
                      players |-> (CHOOSE m \in p2p' : m.type = "P2P_STATE_SYNC").players]
                ELSE lastSync

\* createLobby: fresh = no existingSessionId, the game is reset
createLobby(fresh) ==
  /\ ~dialing
  /\ mp' = joinLobby([mp EXCEPT !.isHost = TRUE])
  /\ players' = IF fresh THEN 0 ELSE players
  /\ dialing' = TRUE
  /\ did' = Event("createLobby", 0, 0)
  /\ p2p' = {}
  /\ UNCHANGED <<reconnectAttempts, timer>>
  /\ UNCHANGED setup
  /\ Broadcasts
  /\ UNCHANGED <<relayVars, clientVars, guestVars>>

\* a resume that leaves the game store as it was
keepState(state, current) == current

\* gameStore.restoreState: players and settings are replaced by the saved ones
restoreState(state, current) == state

\* resumeLobby of a session that has a lobby code: the saved value is restored
\* from the session cache, then joinLobby runs
resumeLobby(saved) ==
  /\ ~dialing
  /\ mp' = joinLobby([mp EXCEPT !.isHost = TRUE])
  /\ players' = restoreState(saved, players)
  /\ dialing' = TRUE
  /\ did' = Event("resumeLobby", 0, saved)
  /\ p2p' = {}
  /\ UNCHANGED <<reconnectAttempts, timer>>
  /\ UNCHANGED setup
  /\ Broadcasts
  /\ UNCHANGED <<relayVars, clientVars, guestVars>>

\* resumeLobby of a session that has no lobby code (or with no token): it
\* throws before it sets anything
resumeLobbyFails ==
  /\ did' = Event("resumeLobbyFailed", 0, 0)
  /\ p2p' = {}
  /\ UNCHANGED <<mp, dialing, reconnectAttempts, timer, players>>
  /\ UNCHANGED setup
  /\ Broadcasts
  /\ UNCHANGED <<relayVars, clientVars, guestVars>>

\* ws.onopen
wsOpen ==
  /\ dialing
  /\ dialing' = FALSE
  /\ reconnectAttempts' = 0
  /\ mp' = [mp EXCEPT !.connectionState = "connected", !.signalingWs = "open",
                      !.error = ""]
  /\ did' = Event("wsOpen", 0, 0)
  /\ p2p' = {}
  /\ UNCHANGED <<timer, players>>
  /\ UNCHANGED setup
  /\ Broadcasts
  /\ UNCHANGED <<relayVars, clientVars, guestVars>>

\* the new socket fails before it opens: onerror records the error, onclose
\* returns because the store does not hold this socket
wsFail ==
  /\ dialing
  /\ dialing' = FALSE
  /\ mp' = IF mp.connectionState = "reconnecting" THEN mp
           ELSE [mp EXCEPT !.error = IF mp.lobbyCode THEN "Lobby not found"
                                     ELSE "Connection error"]
  /\ did' = Event("wsFail", 0, 0)
  /\ p2p' = {}
  /\ UNCHANGED <<reconnectAttempts, timer, players>>
  /\ UNCHANGED setup
  /\ Broadcasts
  /\ UNCHANGED <<relayVars, clientVars, guestVars>>

\* Math.min(1000 * Math.pow(2, reconnectAttempts), 30000), in seconds
Delay(attempts) == IF 2 ^ attempts < 30 THEN 2 ^ attempts ELSE 30

\* ws.onclose of the socket the store holds
wsClose(code) ==
  /\ mp.signalingWs = "open"
  /\ IF ~mp.lobbyCode
       THEN /\ mp' = [mp EXCEPT !.connectionState = "disconnected", !.signalingWs = "null"]
            /\ UNCHANGED timer
       ELSE IF code # 1000 /\ reconnectAttempts < MAX_RECONNECT_ATTEMPTS
       THEN /\ mp' = [mp EXCEPT !.connectionState = "reconnecting", !.signalingWs = "closed"]
            /\ timer' = Delay(reconnectAttempts)
       ELSE /\ mp' = [cleanup(mp) EXCEPT
                      !.error = IF code = 1000 THEN "" ELSE "Connection lost"]
            /\ UNCHANGED timer
  /\ did' = Event("wsClose", 0, 0)
  /\ p2p' = {}
  /\ UNCHANGED <<dialing, reconnectAttempts, players>>
  /\ UNCHANGED setup
  /\ Broadcasts
  /\ UNCHANGED <<relayVars, clientVars, guestVars>>

\* the setTimeout callback of onclose
reconnectTimer ==
  /\ timer # 0
  /\ ~dialing
  /\ reconnectAttempts < MAX_RECONNECT_ATTEMPTS
  /\ timer' = 0
  /\ reconnectAttempts' = reconnectAttempts + 1
  /\ mp' = joinLobby(mp)
  /\ dialing' = TRUE
  /\ did' = Event("reconnectTimer", 0, 0)
  /\ p2p' = {}
  /\ UNCHANGED players
  /\ UNCHANGED setup
  /\ Broadcasts
  /\ UNCHANGED <<relayVars, clientVars, guestVars>>

\* the P2P_PEER_UPDATE broadcast: payload { peers: get().connectedPeers }
peerUpdate(m) ==
  {[msg EXCEPT !.peers = m.connectedPeers] :
     msg \in broadcastToClients(m, "P2P_PEER_UPDATE", 0, FALSE)}

\* handleSignalingMessage SIGNALING_JOINED; the relay tells the lobby's host
\* isHost = true and the clients of its roster
Joined ==
  /\ mp.signalingWs = "open"
  /\ \E peers \in SUBSET Clients :
       mp' = [mp EXCEPT !.isHost = TRUE, !.connectedPeers = peers]
  /\ did' = Event("SIGNALING_JOINED", 0, 0)
  /\ p2p' = {}
  /\ UNCHANGED <<dialing, reconnectAttempts, timer, players>>
  /\ UNCHANGED setup
  /\ Broadcasts
  /\ UNCHANGED <<relayVars, clientVars, guestVars>>

\* handleSignalingMessage SIGNALING_PEER_JOINED and initiatePeerConnection up to
\* its first await
initiatePeerConnection(c) ==
  /\ mp.signalingWs = "open"
  /\ setup' = IF mp.isHost THEN setup \cup {c} ELSE setup
  /\ did' = Event("SIGNALING_PEER_JOINED", c, 0)
  /\ p2p' = {}
  /\ UNCHANGED <<mp, dialing, reconnectAttempts, timer, players>>
  /\ Broadcasts
  /\ UNCHANGED <<relayVars, clientVars, guestVars>>

\* initiatePeerConnection past its awaits: the offer is sent and the transport
\* is put in the peer map
offerSent(c) ==
  /\ c \in setup
  /\ setup' = setup \ {c}
  /\ mp' = [mp EXCEPT !.peerConnections[c] = "connecting"]
  /\ did' = Event("offerSent", c, 0)
  /\ p2p' = {}
  /\ UNCHANGED <<dialing, reconnectAttempts, timer, players>>
  /\ Broadcasts
  /\ UNCHANGED <<relayVars, clientVars, guestVars>>

\* handleSignalingMessage SIGNALING_PEER_LEFT
PeerLeft(c) ==
  /\ mp.signalingWs = "open"
  /\ mp' = IF mp.peerConnections[c] # "none"
             THEN [mp EXCEPT !.peerConnections[c] = "none",
                             !.connectedPeers = @ \ {c}]
             ELSE mp
  /\ did' = Event("SIGNALING_PEER_LEFT", c, 0)
  /\ p2p' = IF mp.peerConnections[c] # "none"
              THEN peerUpdate(mp')
              ELSE {}
  /\ UNCHANGED <<dialing, reconnectAttempts, timer, players>>
  /\ UNCHANGED setup
  /\ Broadcasts
  /\ UNCHANGED <<relayVars, clientVars, guestVars>>

\* dc.onopen
dcOpen(c) ==
  /\ mp.peerConnections[c] = "connecting"
  /\ mp' = [mp EXCEPT !.peerConnections[c] = "open",
                      !.connectedPeers = @ \cup {c}]
  /\ did' = Event("dcOpen", c, 0)
  /\ p2p' = peerUpdate(mp')
  /\ UNCHANGED <<dialing, reconnectAttempts, timer, players>>
  /\ UNCHANGED setup
  /\ Broadcasts
  /\ UNCHANGED <<relayVars, clientVars, guestVars>>

\* dc.onclose: the far end or the network closed the channel
dcClose(c) ==
  /\ mp.peerConnections[c] \in {"connecting", "open"}
  /\ mp' = [mp EXCEPT !.peerConnections[c] = "closed"]
  /\ did' = Event("dcClose", c, 0)
  /\ p2p' = {}
  /\ UNCHANGED <<dialing, reconnectAttempts, timer, players>>
  /\ UNCHANGED setup
  /\ Broadcasts
  /\ UNCHANGED <<relayVars, clientVars, guestVars>>

\* initiatePeerConnection pc.onconnectionstatechange with 'failed': the
\* transport of peer c has failed for good; the handler logs
pcFailed(c) ==
  /\ mp.peerConnections[c] \in {"connecting", "open", "closed"}
  /\ mp' = [mp EXCEPT !.peerConnections[c] = "failed"]
  /\ did' = Event("pcFailed", c, 0)
  /\ p2p' = {}
  /\ UNCHANGED <<dialing, reconnectAttempts, timer, players>>
  /\ UNCHANGED setup
  /\ Broadcasts
  /\ UNCHANGED <<relayVars, clientVars, guestVars>>

\* the GameActions modelled: UPDATE_COUNTER with a delta, SET_COUNTER with a value
GameActions ==
  {[type |-> "UPDATE_COUNTER", arg |-> d] : d \in Deltas}
    \cup {[type |-> "SET_COUNTER", arg |-> v] : v \in Values}

\* gameStore.applyGameAction: the value after, and what the store broadcasts
applyGameAction(m, value, action) ==
  LET after == IF action.type = "UPDATE_COUNTER" THEN value + action.arg
               ELSE action.arg
  IN [players |-> after,
      p2p |-> IF isMultiplayer(m) /\ m.isHost THEN broadcastState(m, after) ELSE {}]

\* dc.onmessage with P2P_ACTION from client c: handleP2PMessage
P2PAction(c, action) ==
  /\ mp.peerConnections[c] = "open"
  /\ InRange(applyGameAction(mp, players, action).players)
  /\ players' = IF mp.isHost THEN applyGameAction(mp, players, action).players ELSE players
  /\ p2p' = IF mp.isHost THEN applyGameAction(mp, players, action).p2p ELSE {}
  /\ did' = [Event("P2P_ACTION", c, action.arg) EXCEPT !.type = action.type]
  /\ UNCHANGED <<mp, dialing, reconnectAttempts, timer>>
  /\ UNCHANGED setup
  /\ Broadcasts
  /\ UNCHANGED <<relayVars, clientVars>>

\* dc.onmessage with P2P_STATE_REQUEST from client c
handleStateRequest(c) ==
  /\ mp.peerConnections[c] = "open"
  /\ p2p' = IF mp.isHost THEN {stateMsg(c, players, mp.gameStarted)} ELSE {}
  /\ did' = Event("P2P_STATE_REQUEST", c, 0)
  /\ UNCHANGED <<mp, dialing, reconnectAttempts, timer, players>>
  /\ UNCHANGED <<setup, lastSync>>
  /\ UNCHANGED <<relayVars, clientVars>>

\* a P2P_STATE_REQUEST arrives from client c
P2PStateRequest(c) ==
  /\ handleStateRequest(c)
  /\ UNCHANGED guestVars

\* gameStore.updateCounter on the host's own screen
updateCounter(delta) ==
  /\ InRange(players + delta)
  /\ players' = players + delta
  /\ p2p' = IF isMultiplayer(mp) THEN sendGameAction(mp, players') ELSE {}
  /\ did' = Event("updateCounter", 0, delta)
  /\ UNCHANGED <<mp, dialing, reconnectAttempts, timer>>
  /\ UNCHANGED setup
  /\ Broadcasts
  /\ UNCHANGED <<relayVars, clientVars>>

\* gameStore.resetGame on the host's own screen: set() and nothing else
resetGame ==
  /\ players' = 0
  /\ p2p' = {}
  /\ did' = Event("resetGame", 0, 0)
  /\ UNCHANGED <<mp, dialing, reconnectAttempts, timer>>
  /\ UNCHANGED setup
  /\ Broadcasts
  /\ UNCHANGED <<relayVars, clientVars>>

startGame ==
  /\ mp.isHost
  /\ ~mp.gameStarted
  /\ mp' = [mp EXCEPT !.gameStarted = TRUE]
  /\ p2p' = broadcastToClients(mp', "P2P_GAME_STARTED", players, TRUE)
  /\ did' = Event("startGame", 0, 0)
  /\ UNCHANGED <<dialing, reconnectAttempts, timer, players>>
  /\ UNCHANGED setup
  /\ Broadcasts
  /\ UNCHANGED <<relayVars, clientVars, guestVars>>

\* suspendLobby keeps lobbyCode and isHost
suspendLobby ==
  /\ mp.lobbyCode
  /\ mp' = [mp EXCEPT !.connectionState = "disconnected", !.signalingWs = "null",
                      !.peerConnections = NoPeers, !.gameStarted = FALSE,
                      !.error = "", !.connectedPeers = {}]
  /\ did' = Event("suspendLobby", 0, 0)
  /\ p2p' = {}
  /\ UNCHANGED <<dialing, reconnectAttempts, timer, players>>
  /\ UNCHANGED setup
  /\ Broadcasts
  /\ UNCHANGED <<relayVars, clientVars, guestVars>>

leaveLobby ==
  /\ mp.lobbyCode
  /\ mp' = cleanup(mp)
  /\ did' = Event("leaveLobby", 0, 0)
  /\ p2p' = {}
  /\ UNCHANGED <<dialing, reconnectAttempts, timer, players>>
  /\ UNCHANGED setup
  /\ Broadcasts
  /\ UNCHANGED <<relayVars, clientVars, guestVars>>

\* handleSignalingMessage SIGNALING_HOST_DISCONNECTED / SIGNALING_LOBBY_CLOSED
LobbyEnded(type) ==
  /\ mp.signalingWs = "open"
  /\ mp' = [cleanup(mp) EXCEPT
              !.error = IF type = "SIGNALING_HOST_DISCONNECTED"
                          THEN "Host disconnected. Session ended."
                          ELSE "Lobby closed"]
  /\ did' = Event(type, 0, 0)
  /\ p2p' = {}
  /\ UNCHANGED <<dialing, reconnectAttempts, timer, players>>
  /\ UNCHANGED setup
  /\ Broadcasts
  /\ UNCHANGED <<relayVars, clientVars, guestVars>>

InitSync ==
  /\ RelayInit(SmallPeers)
  /\ ClientIdle
  /\ run = SmallRun(FALSE)
  /\ budget = Unlimited

NextSync ==
  \/ \E fresh \in BOOLEAN : createLobby(fresh)
  \/ \E saved \in Values : resumeLobby(saved)
  \/ wsOpen
  \/ wsFail
  \/ \E code \in {1000, 1006} : wsClose(code)
  \/ reconnectTimer
  \/ Joined
  \/ \E c \in Clients : initiatePeerConnection(c)
  \/ \E c \in Clients : offerSent(c)
  \/ \E c \in Clients : PeerLeft(c)
  \/ \E c \in Clients : dcOpen(c)
  \/ \E c \in Clients : dcClose(c)
  \/ \E c \in Clients : pcFailed(c)
  \/ \E c \in Clients, action \in GameActions :
       P2PAction(c, action) /\ UNCHANGED guestVars
  \/ \E c \in Clients : P2PStateRequest(c)
  \/ \E delta \in Deltas : updateCounter(delta) /\ UNCHANGED guestVars
  \/ resetGame /\ UNCHANGED guestVars
  \/ startGame
  \/ suspendLobby
  \/ leaveLobby
  \/ \E type \in {"SIGNALING_HOST_DISCONNECTED", "SIGNALING_LOBBY_CLOSED"} : LobbyEnded(type)

\* the host device, the relay left aside
SpecSync == InitSync /\ [][NextSync]_vars

(***************************************************************************)
(* Host device: properties                                                 *)
(***************************************************************************)
\* what a GameAction means: UPDATE_COUNTER adds its delta to the counter,
\* SET_COUNTER replaces the counter's value
Effect(value, event) ==
  CASE event.type = "UPDATE_COUNTER" -> value + event.delta
    [] event.type = "SET_COUNTER" -> event.delta
    [] OTHER -> value

\* C10: whenever the host handles a P2P_ACTION from a client's data channel
\* it applies the action to the game store and sends a P2P_STATE_SYNC with
\* the state after the action on every data channel that is open, the
\* sender's and the others'.
C10_ActionFansOut ==
  [][\A c \in Clients :
       ( /\ did'.op = "P2P_ACTION" /\ did'.peer = c
         /\ mp.isHost )
       => ( /\ players' = Effect(players, did')
            /\ \A q \in Clients :
                 mp.peerConnections[q] = "open" =>
                   \E m \in p2p' : /\ m.to = q
                                   /\ m.type = "P2P_STATE_SYNC"
                                   /\ m.players = players' )
    ]_vars

\* C11: after every Action the host handles, the game store holds the state
\* before it with that one action applied, and the P2P_STATE_SYNC broadcast
\* last carries exactly that state; so after N actions the last broadcast is
\* the state with the N actions applied in the order they were handled.
C11_LastSyncIsLatest ==
  [][( did'.op = "P2P_ACTION" /\ mp.isHost )
       => ( /\ players' = Effect(players, did')
            /\ lastSync'.has
            /\ lastSync'.players = players' )
    ]_vars

(***************************************************************************)
(* Client device: applying a snapshot                                      *)
(***************************************************************************)
PlayerIds == 1..MaxPlayers
Lives == 0..MaxLife
CounterIndexes == 0..1

Player == [id : PlayerIds, life : Lives, activeCounterIndex : CounterIndexes]

\* player lists of up to MaxPlayers players with distinct ids
RECURSIVE PlayerLists(_)
PlayerLists(n) ==
  IF n = 0 THEN {<<>>}
  ELSE PlayerLists(n - 1)
         \cup {Append(l, q) : l \in {k \in PlayerLists(n - 1) : Len(k) = n - 1},
                              q \in Player}

DistinctIds(l) == \A i, j \in 1..Len(l) : l[i].id = l[j].id => i = j

Rosters == {l \in PlayerLists(MaxPlayers) : DistinctIds(l)}

Snapshots ==
  [players : Rosters, settings : Lives, highrollMode : BOOLEAN, gameStarted : BOOLEAN]

\* currentPlayers.find(p => p.id === id): index of the first match, 0 if none
find(currentPlayers, id) ==
  IF \E j \in 1..Len(currentPlayers) : currentPlayers[j].id = id
    THEN CHOOSE j \in 1..Len(currentPlayers) :
           /\ currentPlayers[j].id = id
           /\ \A k \in 1..(j - 1) : currentPlayers[k].id # id
    ELSE 0

\* gameStore.applyRemoteState: the merged players
applyRemoteState(currentPlayers, remotePlayers) ==
  [index \in 1..Len(remotePlayers) |->
     LET found == find(currentPlayers, remotePlayers[index].id)
         localPlayer == IF found # 0 THEN found
                        ELSE IF index <= Len(currentPlayers) THEN index
                        ELSE 0
     IN [remotePlayers[index] EXCEPT
           !.activeCounterIndex =
              IF localPlayer # 0 THEN currentPlayers[localPlayer].activeCounterIndex
              ELSE 0]]

\* handleP2PMessage P2P_STATE_SYNC on a client
handleStateSync(payload) ==
  /\ synced = NoSnapshot
  /\ payload # NoSnapshot
  /\ client' = [players |-> applyRemoteState(client.players, payload.players),
                settings |-> payload.settings,
                highrollMode |-> payload.highrollMode,
                gameStarted |-> payload.gameStarted]
  /\ synced' = payload
  /\ UNCHANGED <<worker, relayVars, deviceVars, guestVars>>

\* a client with a local game of its own, before the first snapshot arrives
InitMerge ==
  /\ RelayInit(SmallPeers)
  /\ run = SmallRun(FALSE)
  /\ budget = Unlimited
  /\ client \in [players : Rosters, settings : {0}, highrollMode : {FALSE},
                  gameStarted : {FALSE}]
  /\ synced = NoSnapshot
  /\ worker = NoCode
  /\ GuestIdle

NextMerge == \E payload \in Snapshots : handleStateSync(payload)

SpecMerge == InitMerge /\ [][NextMerge]_vars

\* C12: after a client applies a P2P_STATE_SYNC built from snapshot S, its
\* mirror equals S in settings, highrollMode, gameStarted and, player by
\* player, in every field but activeCounterIndex; a player whose id the client
\* already tracked keeps the client's activeCounterIndex, and a player whose
\* id it did not track is taken exactly as received.
C12_MergeMirrorsSnapshot ==
  [][synced' # synced =>
       /\ client'.settings = synced'.settings
       /\ client'.highrollMode = synced'.highrollMode
       /\ client'.gameStarted = synced'.gameStarted
       /\ Len(client'.players) = Len(synced'.players)
       /\ \A i \in 1..Len(synced'.players) :
            /\ client'.players[i].id = synced'.players[i].id
            /\ client'.players[i].life = synced'.players[i].life
            /\ \A j \in 1..Len(client.players) :
                 client.players[j].id = synced'.players[i].id =>
                   client'.players[i].activeCounterIndex
                     = client.players[j].activeCounterIndex
            /\ (\A j \in 1..Len(client.players) :
                   client.players[j].id # synced'.players[i].id) =>
                 client'.players[i] = synced'.players[i]
    ]_vars

\* C13: an abnormal close of the control channel of a connected device that
\* knows its lobby code makes it reconnecting with a retry scheduled after
\* 1 s doubled per attempt made (at most 30 s); when a retry's socket fails
\* another retry is scheduled the same way while fewer than
\* MAX_RECONNECT_ATTEMPTS were made, and after the last one the device is
\* disconnected with the error "Connection lost".
C13_RetriesWithBackoff ==
  [][/\ ( /\ did'.op = "wsClose"
          /\ mp.connectionState = "connected" /\ mp.lobbyCode
          /\ mp'.error = "Connection lost" )
        => mp'.connectionState = "disconnected"
     /\ ( /\ did'.op = "wsClose"
          /\ mp.connectionState = "connected" /\ mp.lobbyCode
          /\ mp'.connectionState # "disconnected" )
        => ( /\ mp'.connectionState = "reconnecting"
             /\ timer' = Delay(reconnectAttempts) )
     /\ ( did.op = "reconnectTimer" /\ did'.op = "wsFail" )
        => IF reconnectAttempts < MAX_RECONNECT_ATTEMPTS
             THEN /\ mp'.connectionState = "reconnecting"
                  /\ timer' = Delay(reconnectAttempts)
             ELSE /\ mp'.connectionState = "disconnected"
                  /\ mp'.error = "Connection lost"
    ]_vars

\* C14: connectionState becomes connecting only from disconnected or
\* reconnecting (a join that first tears the old connection down passes
\* through disconnected), becomes connected only from connecting, by the
\* opening of the control socket, and becomes reconnecting only from connected,
\* by an abnormal close while the lobby code is known.
C14_StateTransitions ==
  [][mp'.connectionState # mp.connectionState =>
       /\ mp'.connectionState = "connecting" =>
            \/ mp.connectionState \in {"disconnected", "reconnecting"}
            \/ mp.signalingWs # "null"
       /\ mp'.connectionState = "connected" =>
            /\ mp.connectionState = "connecting"
            /\ did'.op = "wsOpen"
       /\ mp'.connectionState = "reconnecting" =>
            /\ mp.connectionState = "connected"
            /\ did'.op = "wsClose"
            /\ mp.lobbyCode
    ]_vars

\* the events that end a device's part in a lobby
Teardowns ==
  {"leaveLobby", "suspendLobby", "SIGNALING_HOST_DISCONNECTED", "SIGNALING_LOBBY_CLOSED"}

GaveUp == did'.op = "wsClose" /\ mp'.connectionState = "disconnected" /\ mp.lobbyCode

\* C15: after leaving, suspending, giving up reconnecting, or handling
\* HostDisconnected or LobbyClosed, the device has no control socket open or
\* opening, no data link and no connected-peer roster and is disconnected; and
\* the same teardown run again changes nothing of that.
C15_OneTeardown ==
  [][/\ (did'.op \in Teardowns \/ GaveUp) =>
          /\ mp'.connectionState = "disconnected"
          /\ mp'.signalingWs = "null"
          /\ ~dialing'
          /\ mp'.peerConnections = NoPeers
          /\ mp'.connectedPeers = {}
     /\ (did.op \in Teardowns /\ did'.op = did.op) => mp' = mp
    ]_vars

(***************************************************************************)
(* Client device: joining a lobby whose host is attached                   *)
(***************************************************************************)
\* joinLobby on the client device, up to the creation of the WebSocket
guestJoin ==
  /\ guest.connectionState = "disconnected"
  /\ guest' = [guest EXCEPT !.connectionState = "connecting"]
  /\ UNCHANGED <<wire, relayVars, deviceVars, clientVars>>

\* ws.onopen on the client device
guestOpen ==
  /\ guest.connectionState = "connecting"
  /\ guest' = [guest EXCEPT !.connectionState = "connected"]
  /\ UNCHANGED <<wire, relayVars, deviceVars, clientVars>>

\* handleSignalingMessage SIGNALING_OFFER_RECEIVED, handleOffer up to its first
\* await: the host has sent its offer, the client creates the transport
guestOffer ==
  /\ guest.connectionState = "connected"
  /\ guest.transport = "none"
  /\ mp.peerConnections[guest.id] = "connecting"
  /\ guest' = [guest EXCEPT !.transport = "answering"]
  /\ UNCHANGED <<wire, relayVars, deviceVars, clientVars>>

\* handleOffer past its awaits: the answer is sent and the transport is put in
\* the peer map
guestAnswerSent ==
  /\ guest.transport = "answering"
  /\ guest' = [guest EXCEPT !.transport = "stored"]
  /\ UNCHANGED <<wire, relayVars, deviceVars, clientVars>>

\* handleSignalingMessage SIGNALING_ICE_CANDIDATE_RECEIVED, handleIceCandidate:
\* a candidate of the host, sent after its offer, reaches the client
guestCandidate ==
  /\ guest.connectionState = "connected"
  /\ guest.transport # "none"
  /\ guest.applied + guest.discarded < MaxCandidates
  /\ guest' = IF guest.transport = "stored" \/ guest.hostConnection = "open"
                THEN [guest EXCEPT !.applied = @ + 1]
                ELSE [guest EXCEPT !.discarded = @ + 1]
  /\ UNCHANGED <<wire, relayVars, deviceVars, clientVars>>

\* pc.ondatachannel, dc.onopen: the client answered over its open control
\* channel, and the channel opens at the client's end; sendToHost puts one
\* P2P_STATE_REQUEST on it
guestDcOpen ==
  /\ guest.connectionState = "connected"
  /\ guest.transport = "stored"
  /\ guest.hostConnection = "none"
  /\ mp.peerConnections[guest.id] \in {"connecting", "open"}
  /\ guest' = [guest EXCEPT !.hostConnection = "open", !.requests = @ + 1]
  /\ wire' = [wire EXCEPT !.requests = @ + 1]
  /\ UNCHANGED <<relayVars, deviceVars, clientVars>>

\* the host's dc.onmessage for the request in flight; what it sends to the
\* joining client travels on the same data link
hostStateRequest ==
  /\ wire.requests > 0
  /\ handleStateRequest(guest.id)
  /\ wire' = [wire EXCEPT
                !.requests = @ - 1,
                !.syncs = IF \E m \in p2p' : m.to = guest.id
                            THEN Append(@, CHOOSE m \in p2p' : m.to = guest.id)
                            ELSE @]
  /\ UNCHANGED guest

\* the client's dc.onmessage, handleP2PMessage P2P_STATE_SYNC
guestStateSync ==
  /\ wire.syncs # <<>>
  /\ guest.hostConnection = "open"
  /\ guest' = [guest EXCEPT !.got = Append(@, Head(wire.syncs)),
                            !.players = Head(wire.syncs).players]
  /\ wire' = [wire EXCEPT !.syncs = Tail(@)]
  /\ UNCHANGED <<relayVars, deviceVars, clientVars>>

\* a device about to join under one of the peer ids, the host not yet created
InitJoin ==
  /\ RelayInit(SmallPeers)
  /\ run = SmallRun(FALSE)
  /\ budget = Unlimited
  /\ client = NoSnapshot
  /\ synced = NoSnapshot
  /\ worker = NoCode
  /\ guest \in {[NoGuest EXCEPT !.id = j] : j \in Clients}
  /\ wire = NoWire

NextJoin ==
  \/ mp.connectionState = "disconnected" /\ \E fresh \in BOOLEAN : createLobby(fresh)
  \/ wsOpen
  \/ \E c \in Clients \ setup :
       mp.peerConnections[c] = "none" /\ initiatePeerConnection(c)
  \/ \E c \in Clients : offerSent(c)
  \/ \E c \in Clients : dcOpen(c)
  \/ \E delta \in Deltas : updateCounter(delta) /\ UNCHANGED guestVars
  \/ startGame
  \/ guestJoin
  \/ guestOpen
  \/ guestOffer
  \/ guestAnswerSent
  \/ guestCandidate
  \/ guestDcOpen
  \/ hostStateRequest
  \/ guestStateSync

\* the host device and one joining client, each peer announced once and the
\* links staying up
SpecJoin == InitJoin /\ [][NextJoin]_vars

C17_JoinReturnsOpen ==
  [][did'.op \in {"createLobby", "resumeLobby"} =>
       /\ mp'.connectionState = "connected"
       /\ mp'.signalingWs = "open"
    ]_vars

\* a member with an accepted socket that is still open
Attached(p) == \E i \in 1..Len(sockets[p]) : sockets[p][i].st = "open"

\* C18: an offer, answer or candidate with target t from member s: if t is
\* attached, exactly t receives the corresponding envelope with fromId = s and
\* the payload unchanged; if t is not attached, nothing is sent to anyone;
\* either way the roster and the lobby record stay as they were.
C18_RelayToTargetOnly ==
  [][(last'.op = "message" /\ last'.kind \in RelayKinds) =>
       /\ connections' = connections
       /\ storage' = storage
       /\ lobbyState' = lobbyState
       /\ IF Attached(last'.target)
            THEN \E i \in 1..Len(sockets[last'.target]) :
                   /\ sockets[last'.target][i].st = "open"
                   /\ sent' = {[Envelope(Received(last'.kind)) EXCEPT
                                  !.to = <<last'.target, i>>,
                                  !.from = last'.peer,
                                  !.payload = last'.payload]}
            ELSE sent' = {}
    ]_vars

\* C19: a malformed envelope from a member is answered with one
\* SIGNALING_ERROR of code INVALID_MESSAGE, delivered to that member and to
\* nobody else, and the roster, the lobby record and the suspend mark stay as
\* they were.
C19_MalformedAnsweredToSender ==
  [][(last'.op = "message" /\ last'.kind = "MALFORMED") =>
       /\ connections' = connections
       /\ storage' = storage
       /\ lobbyState' = lobbyState
       /\ hostSuspended' = hostSuspended
       /\ \E i \in 1..Len(sockets[last'.peer]) :
            sent' = {[Envelope("SIGNALING_ERROR") EXCEPT
                        !.to = <<last'.peer, i>>, !.code = "INVALID_MESSAGE"]}
    ]_vars

\* C20: a successful attach sends the new member, on its new socket, a Joined
\* envelope whose roster includes it, with yourId its peer id, hostId the
\* lobby's host identity and isHost true exactly when the two are equal; the
\* attach of a non-host member while the host is attached also sends the host
\* PeerJoined for that peer, and nothing else is sent; a host attach sends no
\* PeerJoined.
C20_AttachAnnounced ==
  [][(last'.op = "attach" /\ last'.status = 101) =>
       LET p == last'.peer
           host == storage.hostId
           joined == {m \in sent' : m.type = "SIGNALING_JOINED"}
           peerJoined == {m \in sent' : m.type = "SIGNALING_PEER_JOINED"}
       IN /\ sent' = joined \cup peerJoined
          /\ Cardinality(joined) = 1
          /\ \A m \in joined :
               /\ m.to = <<p, last'.slot>>
               /\ p \in m.lobbyInfo.peers
               /\ m.yourId = p
               /\ m.hostId = host
               /\ m.isHost <=> p = host
          /\ \A m \in peerJoined : m.from = p /\ m.to[1] = host
          /\ Cardinality(peerJoined) = IF p # host /\ Attached(host) THEN 1 ELSE 0
    ]_vars

\* C21: when the registered socket of a non-host member closes, that member
\* and nobody else leaves the roster, the host, if attached, receives exactly
\* one PeerLeft carrying the member's id, nobody else receives anything, and
\* the lobby record stays as it was.
C21_PeerLeftToHost ==
  [][(/\ last'.op = "close"
      /\ storage # NoLobby
      /\ last'.peer # storage.hostId
      /\ connections[last'.peer] = last'.slot) =>
       /\ connections' = [connections EXCEPT ![last'.peer] = 0]
       /\ storage' = storage
       /\ IF Attached(storage.hostId)
            THEN \E i \in 1..Len(sockets[storage.hostId]) :
                   sent' = {[Envelope("SIGNALING_PEER_LEFT") EXCEPT
                               !.to = <<storage.hostId, i>>, !.from = last'.peer]}
            ELSE sent' = {}
    ]_vars

\* C22: when the host processes PeerLeft for a peer it was negotiating with or
\* held a transport for, then after that step, and after the step that follows
\* it unless that one announces peers again, the peer map holds no transport
\* for the peer and the roster of connected peers does not contain it; and the
\* PeerUpdate broadcast by the PeerLeft step goes to the open links with a
\* roster that excludes the peer.
C22_PeerLeftForgetsPeer ==
  [][/\ (/\ did'.op = "SIGNALING_PEER_LEFT"
         /\ (did'.peer \in setup \/ mp.peerConnections[did'.peer] # "none")) =>
          /\ mp'.peerConnections[did'.peer] = "none"
          /\ did'.peer \notin mp'.connectedPeers
          /\ \A m \in p2p' : m.type = "P2P_PEER_UPDATE" /\ did'.peer \notin m.peers
     /\ (/\ did.op = "SIGNALING_PEER_LEFT"
         /\ did'.op \notin {"SIGNALING_PEER_LEFT", "SIGNALING_PEER_JOINED", "SIGNALING_JOINED"}) =>
          /\ mp.peerConnections[did.peer] = "none" => mp'.peerConnections[did.peer] = "none"
          /\ did.peer \notin mp.connectedPeers => did.peer \notin mp'.connectedPeers
    ]_vars

\* C23: a close or error event of a socket that a newer attach of the same
\* peer id has evicted leaves the roster as it was, the newer socket staying
\* registered; nothing is broadcast and the lobby record is kept, also when
\* the peer is the host.
C23_EvictedEventIsInert ==
  [][(/\ last'.op \in {"close", "error"}
      /\ sockets[last'.peer][last'.slot].st = "closing"
      /\ connections[last'.peer] \notin {0, last'.slot}) =>
       /\ connections' = connections
       /\ sent' = {}
       /\ storage' = storage
       /\ lobbyState' = lobbyState
    ]_vars

\* C24: a device that is disconnected, no socket of it still opening, stays
\* disconnected and without a control channel in every step that is not a
\* create or resume issued by the user; in particular a reconnect timer armed
\* before the teardown does not join again.
C24_StaysDisconnected ==
  [][(/\ mp.connectionState = "disconnected"
      /\ ~dialing
      /\ did'.op \notin {"createLobby", "resumeLobby"}) =>
       /\ mp'.connectionState = "disconnected"
       /\ mp'.signalingWs = "null"
       /\ ~dialing'
    ]_vars

(***************************************************************************)
(* Host device: the control channel alone, with fair scheduling            *)
(***************************************************************************)
NextDial ==
  \/ \E fresh \in BOOLEAN : createLobby(fresh)
  \/ \E saved \in Values : resumeLobby(saved)
  \/ wsOpen
  \/ wsFail
  \/ \E code \in {1000, 1006} : wsClose(code)
  \/ reconnectTimer
  \/ suspendLobby
  \/ leaveLobby

\* a socket that was created opens or fails, and an armed timer fires; what
\* the user and the network do to an open socket is not scheduled
SpecDial ==
  /\ InitSync
  /\ [][NextDial]_vars
  /\ WF_vars(wsOpen \/ wsFail)
  /\ WF_vars(reconnectTimer)

\* C25: a device in connecting whose socket has failed before opening leaves
\* connecting: it reaches disconnected with an error, unless the user creates,
\* resumes, suspends or leaves first.
C25_JoinTerminates ==
  (mp.connectionState = "connecting" /\ ~dialing)
     ~> \/ mp.connectionState = "disconnected" /\ mp.error # ""
        \/ did.op \in {"createLobby", "resumeLobby", "suspendLobby", "leaveLobby"}

\* C26: when a transport of the host reaches its terminal failure state, the
\* peer leaves the host's peer map and no negotiation for it is started.
C26_FailedTransportRemoved ==
  [][did'.op = "pcFailed" =>
       /\ mp'.peerConnections[did'.peer] = "none"
       /\ did'.peer \notin setup'
    ]_vars

\* C27: when the host's registered socket closes and the host sent no suspend
\* on that very socket, every other member gets SIGNALING_HOST_DISCONNECTED
\* and the lobby is torn down, whatever earlier host sockets did.
C27_SuspendIsPerConnection ==
  [][\A p \in run.peers :
       ( /\ Handled({"close"}, p)
         /\ lobbyState # NoLobby /\ p = lobbyState.hostId
         /\ connections[p] = last'.slot
         /\ ~sockets[p][last'.slot].suspendSent )
       => ( /\ \A q \in Others(p) : Got(q, "SIGNALING_HOST_DISCONNECTED")
            /\ storage' = NoLobby
            /\ lobbyState' = NoLobby
            /\ Roster(connections') = {} )
    ]_vars

\* C28: a candidate of the host that reaches a client after the host's offer
\* is applied to the transport created for that offer, whether the client is
\* still producing its answer or has stored the transport; none is discarded.
C28_CandidateApplied ==
  [][(guest'.applied + guest'.discarded # guest.applied + guest.discarded) =>
       /\ guest'.applied = guest.applied + 1
       /\ guest'.discarded = guest.discarded
    ]_vars

\* C29: an open or error event of a control socket made for a session the
\* device has since torn down (the socket still opening, the device no longer
\* connecting) leaves connectionState, the lobby code, the error field, the
\* current control channel and the peer links as they are.
C29_SupersededSocketIsInert ==
  [][(/\ dialing
      /\ mp.connectionState # "connecting"
      /\ did'.op \in {"wsOpen", "wsFail"}) =>
       /\ mp'.connectionState = mp.connectionState
       /\ mp'.lobbyCode = mp.lobbyCode
       /\ mp'.error = mp.error
       /\ mp'.signalingWs = mp.signalingWs
       /\ mp'.peerConnections = mp.peerConnections
    ]_vars

\* the clients whose data channel is open
OpenLinks(m) == {c \in Clients : m.peerConnections[c] = "open"}

\* C30: while the host has open client links, every host-side change to the
\* players of the shared game state, made while the host is connected in its
\* lobby, broadcasts a P2P_STATE_SYNC carrying the changed players to every
\* open client link
C30_ChangeIsBroadcast ==
  [][(mp.isHost /\ isMultiplayer(mp) /\ mp' = mp /\ OpenLinks(mp) # {}
        /\ players' # players)
       => \A c \in OpenLinks(mp) :
            stateMsg(c, players', mp.gameStarted) \in p2p']_vars

\* the same with resetGame left aside
C30_ExceptReset ==
  [][(mp.isHost /\ isMultiplayer(mp) /\ mp' = mp /\ OpenLinks(mp) # {}
        /\ players' # players /\ did'.op # "resetGame")
       => \A c \in OpenLinks(mp) :
            stateMsg(c, players', mp.gameStarted) \in p2p']_vars

\* the events C31 is about: data-channel events and the control-channel
\* messages about the roster and its members
RosterEvents ==
  {"dcOpen", "dcClose", "SIGNALING_JOINED", "SIGNALING_PEER_JOINED", "SIGNALING_PEER_LEFT"}

\* C31: on the host a peer enters connectedPeers exactly when its data channel
\* opens and leaves it exactly when its data channel closes; no
\* control-channel message changes connectedPeers
C31_RosterFollowsChannels ==
  [][(mp.isHost /\ did'.op \in RosterEvents)
       => \A c \in Clients :
            /\ (did'.op = "dcOpen" /\ did'.peer = c) => c \in mp'.connectedPeers
            /\ (did'.op = "dcClose" /\ did'.peer = c) => c \notin mp'.connectedPeers
            /\ (c \in mp'.connectedPeers /\ c \notin mp.connectedPeers)
                 => (did'.op = "dcOpen" /\ did'.peer = c)
            /\ (c \notin mp'.connectedPeers /\ c \in mp.connectedPeers)
                 => (did'.op = "dcClose" /\ did'.peer = c)]_vars

\* the part of C31 about the opening of a data channel alone
C31_OpenAdds ==
  [][(mp.isHost /\ did'.op = "dcOpen") => did'.peer \in mp'.connectedPeers]_vars

\* the part of C31 about the closing of a data channel alone
C31_CloseRemoves ==
  [][(mp.isHost /\ did'.op = "dcClose") => did'.peer \notin mp'.connectedPeers]_vars

\* the part of C31 about control-channel messages alone
C31_MessagesKeepRoster ==
  [][(mp.isHost /\ did'.op \in RosterEvents \ {"dcOpen", "dcClose"})
       => mp'.connectedPeers = mp.connectedPeers]_vars

\* a suspend envelope from a member that is not the host was just handled
NonHostSuspend(p) ==
  /\ Handled({"message"}, p) /\ last'.kind = "SIGNALING_HOST_SUSPEND"
  /\ storage # NoLobby /\ p # storage.hostId

\* C32: a suspend envelope sent by a member that is not the host has no
\* effect: nothing is sent, the lobby is not marked suspended, and when the
\* host's connection detaches next (close or error callback) without a suspend
\* of its own, the others get SIGNALING_HOST_DISCONNECTED and the lobby is
\* torn down
C32_SuspendIsHostOnly ==
  [][\A p \in run.peers :
       /\ NonHostSuspend(p)
            => /\ sent' = {}
               /\ hostSuspended' = hostSuspended
               /\ <<lobbyState', storage', connections'>> = <<lobbyState, storage, connections>>
       /\ ( /\ Handled({"close", "error"}, p)
            /\ storage # NoLobby /\ p = storage.hostId
            /\ connections[p] = last'.slot
            /\ ~hostSuspended
            /\ \A j \in 1..Len(sockets[p]) : ~sockets[p][j].suspendSent
            /\ last.op = "message" /\ last.kind = "SIGNALING_HOST_SUSPEND"
            /\ last.peer # p )
          => ( /\ storage' = NoLobby
               /\ lobbyState' = NoLobby
               /\ Roster(connections') = {}
               /\ \A q \in Others(p) : Got(q, "SIGNALING_HOST_DISCONNECTED") )
    ]_vars

\* the first part of C32 alone: the envelope is answered with nothing and
\* changes nothing the relay holds
C32_NoEffect ==
  [][\A p \in run.peers :
       NonHostSuspend(p)
         => /\ sent' = {}
            /\ hostSuspended' = hostSuspended
            /\ <<lobbyState', storage', connections'>> = <<lobbyState, storage, connections>>
    ]_vars

\* the last part of C32 for the close callback alone
C32_CloseStillTearsDown ==
  [][\A p \in run.peers :
       ( /\ Handled({"close"}, p)
         /\ storage # NoLobby /\ p = storage.hostId
         /\ connections[p] = last'.slot
         /\ ~hostSuspended
         /\ \A j \in 1..Len(sockets[p]) : ~sockets[p][j].suspendSent
         /\ last.op = "message" /\ last.kind = "SIGNALING_HOST_SUSPEND"
         /\ last.peer # p )
       => ( /\ storage' = NoLobby
            /\ lobbyState' = NoLobby
            /\ Roster(connections') = {}
            /\ \A q \in Others(p) : Got(q, "SIGNALING_HOST_DISCONNECTED") )
    ]_vars

\* C33: the relay forwards an offer only when its sender is the lobby's host:
\* a SIGNALING_OFFER that a member that is not the host addresses to another
\* member is delivered to nobody as SIGNALING_OFFER_RECEIVED
C33_OffersFromHostOnly ==
  [][\A p \in run.peers :
       ( /\ Handled({"message"}, p) /\ last'.kind = "SIGNALING_OFFER"
         /\ storage # NoLobby /\ p # storage.hostId
         /\ last'.target # p )
       => \A m \in sent' : m.type # "SIGNALING_OFFER_RECEIVED"
    ]_vars

\* C34: when the worker closes the lobby its user hosted before (POST /close,
\* sent before the new lobby is initialized), every attached member gets
\* SIGNALING_LOBBY_CLOSED and the record is deleted, so that info and attach
\* for the old code answer not found afterwards
C34_OldLobbyClosed ==
  [][(last'.op = "closeRequest" /\ storage # NoLobby)
       => /\ storage' = NoLobby
          /\ lobbyState' = NoLobby
          /\ Roster(connections') = {}
          /\ \A q \in Others(0) : Got(q, "SIGNALING_LOBBY_CLOSED")
    ]_vars

(***************************************************************************)
(* Client device: mirroring the host over an open data link                *)
(***************************************************************************)
\* the P2P_STATE_SYNC the host's last event sent to the client travels on the
\* ordered data link
Carried ==
  /\ wire' = [wire EXCEPT
               !.syncs = IF \E m \in p2p' : m.to = guest.id /\ m.type = "P2P_STATE_SYNC"
                           THEN Append(@, CHOOSE m \in p2p' :
                                            m.to = guest.id /\ m.type = "P2P_STATE_SYNC")
                           ELSE @]
  /\ guest' = guest

\* an operation on the host's own screen, or an event of its control socket
hostStep(A) ==
  /\ Len(wire.syncs) < MaxFlight
  /\ A
  /\ Carried

\* the host's dc.onmessage for the client's P2P_ACTION first in flight
hostAction ==
  /\ wire.actions # <<>>
  /\ Len(wire.syncs) < MaxFlight
  /\ P2PAction(guest.id, Head(wire.actions))
  /\ wire' = [wire EXCEPT
               !.actions = Tail(@),
               !.syncs = IF \E m \in p2p' : m.to = guest.id /\ m.type = "P2P_STATE_SYNC"
                           THEN Append(@, CHOOSE m \in p2p' :
                                            m.to = guest.id /\ m.type = "P2P_STATE_SYNC")
                           ELSE @]
  /\ guest' = guest

\* gameStore.updateCounter on the client: the optimistic update, then
\* sendAction when isMultiplayer(), which ends in sendToHost
guestUpdateCounter(delta) ==
  /\ InRange(guest.players + delta)
  /\ Len(wire.actions) < MaxFlight
  /\ guest' = [guest EXCEPT !.players = @ + delta]
  /\ wire' = IF guest.connectionState = "connected" /\ guest.hostConnection = "open"
               THEN [wire EXCEPT !.actions =
                       Append(@, [type |-> "UPDATE_COUNTER", arg |-> delta])]
               ELSE wire
  /\ UNCHANGED <<relayVars, deviceVars, clientVars>>

\* the client's dc.onmessage, P2P_STATE_SYNC, once it has joined:
\* applyRemoteState replaces the mirrored players
guestApplySync ==
  /\ wire.syncs # <<>>
  /\ guest.hostConnection = "open"
  /\ guest' = [guest EXCEPT !.players = Head(wire.syncs).players]
  /\ wire' = [wire EXCEPT !.syncs = Tail(@)]
  /\ UNCHANGED <<relayVars, deviceVars, clientVars>>

\* ws.onclose on the client, abnormal code: the store goes to reconnecting
\* and the data link stays
guestWsClose ==
  /\ guest.connectionState = "connected"
  /\ guest' = [guest EXCEPT !.connectionState = "reconnecting"]
  /\ UNCHANGED <<wire, relayVars, deviceVars, clientVars>>

\* the client's reconnect timer: joinLobby runs cleanup, which closes the
\* link to the host
guestReconnect ==
  /\ guest.connectionState = "reconnecting"
  /\ guest' = [guest EXCEPT !.connectionState = "connecting",
                            !.hostConnection = "none", !.transport = "none"]
  /\ UNCHANGED <<wire, relayVars, deviceVars, clientVars>>

\* a client that has joined and holds the host's first snapshot, in a run
\* with no relay event
InitMirror ==
  /\ lobbyState = NoLobby
  /\ storage = NoLobby
  /\ connections = [q \in SmallPeers |-> 0]
  /\ hostSuspended = FALSE
  /\ sockets = [q \in SmallPeers |-> <<>>]
  /\ last = NoLast
  /\ sent = {}
  /\ hostAway = NoLobby
  /\ run = SmallRun(FALSE)
  /\ budget = 0
  /\ client = NoSnapshot
  /\ synced = NoSnapshot
  /\ worker = NoCode
  /\ \E g \in Clients :
       /\ mp = [Disconnected EXCEPT !.connectionState = "connected",
                                    !.signalingWs = "open", !.lobbyCode = TRUE,
                                    !.isHost = TRUE, !.peerConnections[g] = "open",
                                    !.connectedPeers = {g}]
       /\ guest = [NoGuest EXCEPT !.id = g, !.connectionState = "connected",
                                  !.transport = "stored", !.hostConnection = "open",
                                  !.requests = 1, !.got = <<stateMsg(g, 0, FALSE)>>]
  /\ dialing = FALSE
  /\ reconnectAttempts = 0
  /\ setup = {}
  /\ timer = 0
  /\ players = 0
  /\ did = NoEvent
  /\ p2p = {}
  /\ lastSync = NoSync
  /\ wire = NoWire

NextMirror ==
  \/ \E delta \in Deltas : hostStep(updateCounter(delta))
  \/ hostStep(resetGame)
  \/ \E code \in {1000, 1006} : hostStep(wsClose(code) /\ guest' = guest)
  \/ hostAction
  \/ \E delta \in Deltas : guestUpdateCounter(delta)
  \/ guestApplySync
  \/ guestWsClose
  \/ guestReconnect

\* the host device and one client that mirrors it
SpecMirror == InitMirror /\ [][NextMirror]_vars

\* the link is open at both ends and nothing is in flight on it
Quiet ==
  /\ mp.peerConnections[guest.id] = "open"
  /\ guest.hostConnection = "open"
  /\ wire.requests = 0 /\ wire.syncs = <<>> /\ wire.actions = <<>>

\* C35: whenever the client's data link is open and every message in flight
\* on it has been delivered and processed, the client's mirrored players
\* equal the players of the host's game store
C35_ClientMatchesHost == Quiet => guest.players = players

(***************************************************************************)
(* Envelopes of a type outside the message set                             *)
(***************************************************************************)
\* a receiver for which a type it does not know is fatal: it tears down
fatalDefault(m) == cleanup(m)

\* handleSignalingMessage and handleP2PMessage: a switch with no default
\* case, the store is left as it is
noCase(m) == m

\* the host device's ws.onmessage with a type handleSignalingMessage has no
\* case for
hostSignalingUnknown ==
  /\ mp.signalingWs = "open"
  /\ mp' = noCase(mp)
  /\ did' = Event("SIGNALING_UNKNOWN", 0, 0)
  /\ p2p' = {}
  /\ UNCHANGED <<dialing, reconnectAttempts, timer, players>>
  /\ UNCHANGED setup
  /\ Broadcasts
  /\ UNCHANGED <<relayVars, clientVars, guestVars>>

\* the host device's dc.onmessage with a type handleP2PMessage has no case
\* for in its host branch
hostP2PUnknown(c) ==
  /\ mp.peerConnections[c] = "open"
  /\ mp' = noCase(mp)
  /\ did' = Event("P2P_UNKNOWN", c, 0)
  /\ p2p' = {}
  /\ UNCHANGED <<dialing, reconnectAttempts, timer, players>>
  /\ UNCHANGED setup
  /\ Broadcasts
  /\ UNCHANGED <<relayVars, clientVars, guestVars>>

\* the client device's ws.onmessage or dc.onmessage with a type its handler
\* has no case for; ignored counts these envelopes
guestUnknown(channel) ==
  /\ guest.ignored < MaxIgnored
  /\ IF channel = "control" THEN guest.connectionState = "connected"
                            ELSE guest.hostConnection = "open"
  /\ guest' = [guest EXCEPT !.ignored = @ + 1]
  /\ UNCHANGED <<wire, relayVars, deviceVars, clientVars>>

\* a run is either a run of the relay, whose members send suspend and
\* envelopes of an unknown type, or a run of two devices with no relay event
InitUnknown ==
  \/ /\ RelayInit(SmallPeers)
     /\ ClientIdle
     /\ run = [SmallRun(FALSE) EXCEPT !.kinds = {"SIGNALING_HOST_SUSPEND", "UNKNOWN"}]
     /\ budget = Unlimited
  \/ InitMirror

NextUnknown ==
  \/ Next
  \/ budget = 0 /\ \E delta \in Deltas : hostStep(updateCounter(delta))
  \/ budget = 0 /\ \E code \in {1000, 1006} : hostStep(wsClose(code) /\ guest' = guest)
  \/ budget = 0 /\ guestApplySync
  \/ budget = 0 /\ guestWsClose
  \/ budget = 0 /\ guestReconnect
  \/ budget = 0 /\ hostSignalingUnknown
  \/ budget = 0 /\ \E c \in Clients : hostP2PUnknown(c)
  \/ budget = 0 /\ \E channel \in {"control", "data"} : guestUnknown(channel)

SpecUnknown == InitUnknown /\ [][NextUnknown]_vars

\* C36: an envelope whose type is not in the message set is ignored and is
\* not fatal: the relay answers it with nothing, closes no socket and keeps
\* roster, lobby record and suspend mark; a device that receives one on its
\* control channel or on a data link keeps its connectionState, its links and
\* its game state
C36_UnknownTypeIgnored ==
  [][/\ (last'.op = "message" /\ last'.kind = "UNKNOWN")
          => /\ sent' = {}
             /\ <<connections', storage', lobbyState', hostSuspended', sockets'>>
                  = <<connections, storage, lobbyState, hostSuspended, sockets>>
     /\ (did' # did /\ did'.op \in {"SIGNALING_UNKNOWN", "P2P_UNKNOWN"})
          => /\ p2p' = {}
             /\ <<mp', players', dialing', reconnectAttempts', timer', setup'>>
                  = <<mp, players, dialing, reconnectAttempts, timer, setup>>
             /\ <<guest', wire'>> = <<guest, wire>>
     /\ guest'.ignored # guest.ignored
          => /\ [guest' EXCEPT !.ignored = 0] = [guest EXCEPT !.ignored = 0]
             /\ wire' = wire
             /\ <<mp', players'>> = <<mp, players>>
    ]_vars

\* the relay ignored an unknown envelope of a client while the lobby was
\* marked suspended and both members were attached
C36_Witness ==
  /\ last.op = "message" /\ last.kind = "UNKNOWN"
  /\ storage # NoLobby /\ last.peer # storage.hostId
  /\ hostSuspended
  /\ Cardinality(Roster(connections)) = 2

\* the host device ignored an unknown data-link message while reconnecting,
\* its game changed and the link open
C36_DeviceCase ==
  /\ did.op = "P2P_UNKNOWN"
  /\ mp.connectionState = "reconnecting"
  /\ players # 0
  /\ guest.ignored > 0

(***************************************************************************)
(* Host device: resuming a saved session                                   *)
(***************************************************************************)
NextResume ==
  \/ mp.connectionState = "disconnected" /\ \E fresh \in BOOLEAN : createLobby(fresh)
  \/ \E saved \in Values : resumeLobby(saved)
  \/ resumeLobbyFails
  \/ wsOpen
  \/ \E c \in Clients \ setup :
       mp.peerConnections[c] = "none" /\ initiatePeerConnection(c)
  \/ \E c \in Clients : offerSent(c)
  \/ \E c \in Clients : dcOpen(c)
  \/ \E c \in Clients : P2PStateRequest(c)
  \/ \E delta \in Deltas : updateCounter(delta) /\ UNCHANGED guestVars
  \/ suspendLobby
  \/ leaveLobby

\* the host device creating, leaving, suspending and resuming sessions
SpecResume == InitSync /\ [][NextResume]_vars

\* C37: resumeLobby puts the saved state into the game store in the step in
\* which it starts joinLobby, with the control channel not yet open and
\* nothing sent; every P2P_STATE_SYNC sent afterwards carries the game store's
\* state of that moment, so none carries the state from before the restore;
\* a resume of a session without lobby code changes nothing of the store
C37_RestoredBeforeAttach ==
  [][/\ did'.op = "resumeLobby"
          => /\ players' = did'.delta
             /\ mp'.connectionState = "connecting"
             /\ mp'.signalingWs # "open"
             /\ p2p' = {}
     /\ \A m \in p2p' : m.type = "P2P_STATE_SYNC" => m.players = players'
     /\ (did'.op = "wsOpen" /\ did.op = "resumeLobby") => players' = did.delta
     /\ did'.op = "resumeLobbyFailed"
          => <<mp', players', dialing'>> = <<mp, players, dialing>>
    ]_vars

\* a host that has just resumed a session whose saved state differs from
\* the state it broadcast last, in the lobby it left before
C37_Witness ==
  /\ did.op = "resumeLobby" /\ did.delta = 0 - 1
  /\ mp.connectionState = "connecting"
  /\ players = 0 - 1
  /\ lastSync.has /\ lastSync.players = 1

(***************************************************************************)
(* Worker: lobby codes                                                     *)
(***************************************************************************)
\* an alphabet that keeps the characters that are easily confused
Alphanumeric ==
  <<"A", "B", "C", "D", "E", "F", "G", "H", "I", "J", "K", "L", "M", "N", "O",
    "P", "Q", "R", "S", "T", "U", "V", "W", "X", "Y", "Z",
    "0", "1", "2", "3", "4", "5", "6", "7", "8", "9">>

\* const CHARSET = 'ABCDEFGHJKMNPQRSTUVWXYZ23456789'
CHARSET ==
  <<"A", "B", "C", "D", "E", "F", "G", "H", "J", "K", "M", "N", "P", "Q", "R",
    "S", "T", "U", "V", "W", "X", "Y", "Z",
    "2", "3", "4", "5", "6", "7", "8", "9">>

\* the values of a Uint8Array element
Bytes == 0..255

\* the bytes the runs draw from: both ends of the range, the last index of
\* CHARSET, the first byte that wraps around and its successor
SampleBytes == {0, 30, 31, 32, 255}

\* String.prototype.toUpperCase on the characters a code can hold
LowerCase ==
  <<"a", "b", "c", "d", "e", "f", "g", "h", "i", "j", "k", "l", "m", "n", "o",
    "p", "q", "r", "s", "t", "u", "v", "w", "x", "y", "z">>

UpperCase ==
  <<"A", "B", "C", "D", "E", "F", "G", "H", "I", "J", "K", "L", "M", "N", "O",
    "P", "Q", "R", "S", "T", "U", "V", "W", "X", "Y", "Z">>

toUpperCase(str) ==
  [i \in 1..Len(str) |->
     IF \E k \in 1..Len(LowerCase) : LowerCase[k] = str[i]
       THEN UpperCase[CHOOSE k \in 1..Len(LowerCase) : LowerCase[k] = str[i]]
       ELSE str[i]]

\* String.prototype.trim: white space at both ends is dropped
trim(str) ==
  LET inked == {i \in 1..Len(str) : str[i] \notin {" ", "\t", "\n", "\r"}}
  IN IF inked = {} THEN <<>>
     ELSE SubSeq(str, CHOOSE i \in inked : \A j \in inked : i <= j,
                      CHOOSE i \in inked : \A j \in inked : i >= j)

\* CHARSET.includes(char)
includes(set, char) == \E k \in 1..Len(set) : set[k] = char

\* byte => CHARSET[byte % CHARSET.length]
charOf(byte) == CHARSET[(byte % Len(CHARSET)) + 1]

isValidLobbyCode(code) ==
  IF Len(code) # CODE_LENGTH THEN FALSE
  ELSE \A i \in 1..Len(code) : includes(CHARSET, toUpperCase(code)[i])

normalizeLobbyCode(code) == trim(toUpperCase(code))

\* generateLobbyCode, crypto.getRandomValues having filled the array
generateLobbyCode ==
  /\ worker.array # <<>>
  /\ worker.code = <<>>
  /\ worker' = [worker EXCEPT !.code = [i \in 1..Len(worker.array) |-> charOf(worker.array[i])]]
  /\ UNCHANGED <<client, synced, relayVars, deviceVars, guestVars>>

\* the worker about to generate a code from some random bytes
InitCode ==
  /\ RelayInit(SmallPeers)
  /\ run = SmallRun(FALSE)
  /\ budget = Unlimited
  /\ client = NoSnapshot
  /\ synced = NoSnapshot
  /\ GuestIdle
  /\ worker \in {[array |-> a, code |-> <<>>] : a \in [1..CODE_LENGTH -> SampleBytes]}

NextCode == generateLobbyCode

SpecCode == InitCode /\ [][NextCode]_vars

\* the characters the alphabet is meant to leave out
Confusable == {"0", "O", "I", "L", "1"}

\* C38: a code returned by generateLobbyCode has exactly 6 characters, each
\* of them in CHARSET and none of them 0, O, I, L or 1, whatever the random
\* bytes are; isValidLobbyCode accepts it and normalizeLobbyCode returns it
\* unchanged
C38_GeneratedCodeIsValid ==
  /\ \A byte \in Bytes : includes(CHARSET, charOf(byte)) /\ charOf(byte) \notin Confusable
  /\ worker.code # <<>>
       => /\ Len(worker.code) = CODE_LENGTH
          /\ \A i \in 1..Len(worker.code) :
               includes(CHARSET, worker.code[i]) /\ worker.code[i] \notin Confusable
          /\ isValidLobbyCode(worker.code)
          /\ normalizeLobbyCode(worker.code) = worker.code

\* a code generated from bytes that wrap around the alphabet and from the
\* byte of its last character
C38_Witness ==
  /\ worker.code # <<>>
  /\ worker.array[1] = 255 /\ worker.code[1] = "H"
  /\ worker.array[2] = 30 /\ worker.code[2] = "9"
  /\ worker.array[3] = 31 /\ worker.code[3] = "A"

====
